---- MODULE Spec2Model ----
(***************************************************************************)
(* Model of robotframework_iperf3.iperf3.Iperf3: the keyword facade with   *)
(* its single server handle (start_server / stop_server / run_client),     *)
(* the helpers _to_bool and _int_to_float, and the text processing the     *)
(* keywords apply to the captured output of the iperf3 processes           *)
(* (re.split, json.loads).                                                 *)
(*                                                                         *)
(* Captured output is text, modelled as TLA+ strings read character by     *)
(* character.  Python integers are unbounded; they are modelled as a sign  *)
(* and a magnitude in two limbs of base 2^16, so that the literal 2 ** 31  *)
(* of the source is represented exactly.                                   *)
(***************************************************************************)
EXTENDS Integers, Sequences, FiniteSets, TLC

(***************************************************************************)
(* Text                                                                    *)
(***************************************************************************)
Ch(s, i) == IF i >= 1 /\ i <= Len(s) THEN SubSeq(s, i, i) ELSE ""

Drop(s, i) == SubSeq(s, i, Len(s))

StartsWith(s, i, w) == i + Len(w) - 1 <= Len(s) /\ SubSeq(s, i, i + Len(w) - 1) = w

\* The range of a sequence.
Range(q) == {q[i] : i \in 1..Len(q)}

Upper == "ABCDEFGHIJKLMNOPQRSTUVWXYZ"
Lower == "abcdefghijklmnopqrstuvwxyz"

\* str.lower() on one character.
LowerCh(c) ==
    IF \E k \in 1..Len(Upper) : Ch(Upper, k) = c
    THEN Ch(Lower, CHOOSE k \in 1..Len(Upper) : Ch(Upper, k) = c)
    ELSE c

RECURSIVE LowerStr(_)
\* str.lower()
LowerStr(s) == IF Len(s) = 0 THEN "" ELSE LowerCh(Ch(s, 1)) \o LowerStr(Drop(s, 2))

(***************************************************************************)
(* Python integers: sign and magnitude, magnitude = hi * 2^16 + lo.        *)
(***************************************************************************)
Limb == 65536

Mag(hi, lo) == [neg |-> FALSE, hi |-> hi, lo |-> lo]
Neg(m) == [m EXCEPT !.neg = (m.hi # 0 \/ m.lo # 0)]
Zero == Mag(0, 0)

\* m * 10 + d on magnitudes, as int() accumulates a decimal literal.
AccDigit(m, d) ==
    LET t == m.lo * 10 + d
    IN  [m EXCEPT !.hi = m.hi * 10 + (t \div Limb), !.lo = t % Limb]

\* The hi limb of 2 ** 31: 2^31 = 32768 * 2^16.
TwoTo31Hi == 32768

\* -(2 ** 31) < value < 2 ** 31
InOpenRange(m) == m.hi < TwoTo31Hi

\* -(2 ** 31) <= value < 2 ** 31, the signed 32-bit range.
InInt32(m) == m.hi < TwoTo31Hi \/ (m.neg /\ m.hi = TwoTo31Hi /\ m.lo = 0)

(***************************************************************************)
(* JSON values as json.loads builds them.  Every node has the same fields; *)
(* t is the Python type, n the number, s the text, c the children in       *)
(* insertion order, each child with its key (keys of list items are "").   *)
(***************************************************************************)
JNull      == [t |-> "null",  n |-> Zero, s |-> "", c |-> <<>>]
JBool(b)   == [t |-> "bool",  n |-> Mag(0, IF b THEN 1 ELSE 0), s |-> "", c |-> <<>>]
JInt(m)    == [t |-> "int",   n |-> m, s |-> "", c |-> <<>>]
\* a float: integral part n, fraction digits s
JFloat(m, frac) == [t |-> "float", n |-> m, s |-> frac, c |-> <<>>]
JStr(s)    == [t |-> "str",   n |-> Zero, s |-> s, c |-> <<>>]
JList(c)   == [t |-> "list",  n |-> Zero, s |-> "", c |-> c]
JDict(c)   == [t |-> "dict",  n |-> Zero, s |-> "", c |-> c]
Item(k, v) == [k |-> k, v |-> v]

\* isinstance(o, int): bool is a subclass of int in Python.
IsInstInt(o) == o.t \in {"int", "bool"}

HasKey(d, k) == \E i \in 1..Len(d.c) : d.c[i].k = k
Get(d, k) == d.c[CHOOSE i \in 1..Len(d.c) : d.c[i].k = k].v

\* d[k] = v on a dict under construction: a repeated key keeps its place.
DictSet(c, k, v) ==
    IF \E i \in 1..Len(c) : c[i].k = k
    THEN [i \in 1..Len(c) |-> IF c[i].k = k THEN Item(k, v) ELSE c[i]]
    ELSE Append(c, Item(k, v))

(***************************************************************************)
(* json.loads: a recursive-descent reading of the text.  A parse result is *)
(* [ok, v, p]: success, the value, and the position after it.  Exponents   *)
(* and \u escapes do not occur in the texts below and are not read.        *)
(***************************************************************************)
Fail == [ok |-> FALSE, v |-> JNull, p |-> 0]
Ok(v, p) == [ok |-> TRUE, v |-> v, p |-> p]

IsWs(c) == c \in {" ", "\n", "\t", "\r"}

RECURSIVE SkipWs(_, _)
SkipWs(s, i) == IF i <= Len(s) /\ IsWs(Ch(s, i)) THEN SkipWs(s, i + 1) ELSE i

Digits == "0123456789"
IsDigit(c) == \E k \in 1..10 : Ch(Digits, k) = c
DigitVal(c) == (CHOOSE k \in 1..10 : Ch(Digits, k) = c) - 1

RECURSIVE ScanString(_, _, _)
\* i is the position after the opening quote; acc the characters read so far.
ScanString(s, i, acc) ==
    LET c == Ch(s, i)
        e == Ch(s, i + 1)
    IN  IF i > Len(s) \/ c \in {"\n", "\t", "\r"} THEN Fail
        ELSE IF c = "\"" THEN Ok(JStr(acc), i + 1)
        ELSE IF c = "\\"
             THEN IF e \in {"\"", "\\", "/"} THEN ScanString(s, i + 2, acc \o e)
                  ELSE IF e = "n" THEN ScanString(s, i + 2, acc \o "\n")
                  ELSE IF e = "t" THEN ScanString(s, i + 2, acc \o "\t")
                  ELSE Fail
        ELSE ScanString(s, i + 1, acc \o c)

RECURSIVE ScanDigits(_, _, _)
ScanDigits(s, i, m) ==
    IF IsDigit(Ch(s, i)) THEN ScanDigits(s, i + 1, AccDigit(m, DigitVal(Ch(s, i))))
    ELSE [m |-> m, p |-> i]

RECURSIVE ScanFrac(_, _, _)
ScanFrac(s, i, acc) ==
    IF IsDigit(Ch(s, i)) THEN ScanFrac(s, i + 1, acc \o Ch(s, i))
    ELSE [s |-> acc, p |-> i]

\* -?(0|[1-9][0-9]*)(\.[0-9]+)? : an int without a fraction, a float with one.
ParseNumber(s, i) ==
    LET neg == Ch(s, i) = "-"
        j   == IF neg THEN i + 1 ELSE i
        ip  == IF Ch(s, j) = "0" THEN [m |-> Zero, p |-> j + 1] ELSE ScanDigits(s, j, Zero)
        fr  == ScanFrac(s, ip.p + 1, "")
    IN  IF ~IsDigit(Ch(s, j)) THEN Fail
        ELSE IF Ch(s, ip.p) = "." /\ IsDigit(Ch(s, ip.p + 1))
             THEN Ok(JFloat([ip.m EXCEPT !.neg = neg], fr.s), fr.p)
             ELSE Ok(JInt(IF neg THEN Neg(ip.m) ELSE ip.m), ip.p)

RECURSIVE ParseValue(_, _)
RECURSIVE ParseMembers(_, _, _)
RECURSIVE ParseElems(_, _, _)

\* i is at the opening quote of a key; acc the items read so far.
ParseMembers(s, i, acc) ==
    LET k    == ScanString(s, i + 1, "")
        j    == SkipWs(s, k.p)
        v    == ParseValue(s, SkipWs(s, j + 1))
        e    == SkipWs(s, v.p)
        acc2 == DictSet(acc, k.v.s, v.v)
    IN  IF Ch(s, i) # "\"" THEN Fail
        ELSE IF ~k.ok \/ Ch(s, j) # ":" THEN Fail
        ELSE IF ~v.ok THEN Fail
        ELSE IF Ch(s, e) = "}" THEN Ok(JDict(acc2), e + 1)
        ELSE IF Ch(s, e) = "," THEN ParseMembers(s, SkipWs(s, e + 1), acc2)
        ELSE Fail

\* i is at the first character of an element; acc the items read so far.
ParseElems(s, i, acc) ==
    LET v    == ParseValue(s, i)
        e    == SkipWs(s, v.p)
        acc2 == Append(acc, Item("", v.v))
    IN  IF ~v.ok THEN Fail
        ELSE IF Ch(s, e) = "]" THEN Ok(JList(acc2), e + 1)
        ELSE IF Ch(s, e) = "," THEN ParseElems(s, SkipWs(s, e + 1), acc2)
        ELSE Fail

ParseValue(s, i) ==
    LET c == Ch(s, i)
        j == SkipWs(s, i + 1)
    IN  IF c = "{" THEN (IF Ch(s, j) = "}" THEN Ok(JDict(<<>>), j + 1)
                         ELSE ParseMembers(s, j, <<>>))
        ELSE IF c = "[" THEN (IF Ch(s, j) = "]" THEN Ok(JList(<<>>), j + 1)
                              ELSE ParseElems(s, j, <<>>))
        ELSE IF c = "\"" THEN ScanString(s, i + 1, "")
        ELSE IF StartsWith(s, i, "true") THEN Ok(JBool(TRUE), i + 4)
        ELSE IF StartsWith(s, i, "false") THEN Ok(JBool(FALSE), i + 5)
        ELSE IF StartsWith(s, i, "null") THEN Ok(JNull, i + 4)
        ELSE IF c = "-" \/ IsDigit(c) THEN ParseNumber(s, i)
        ELSE Fail

\* json.loads(s): one value, surrounded by optional whitespace, and nothing else.
Loads(s) ==
    LET r == ParseValue(s, SkipWs(s, 1))
    IN  IF r.ok /\ SkipWs(s, r.p) = Len(s) + 1 THEN r ELSE Fail

(***************************************************************************)
(* Keyword arguments: Python values as Robot Framework hands them over.    *)
(***************************************************************************)
PyNone    == [t |-> "none", b |-> FALSE, n |-> 0, s |-> ""]
PyBool(b) == [t |-> "bool", b |-> b,     n |-> 0, s |-> ""]
PyNum(n)  == [t |-> "int",  b |-> FALSE, n |-> n, s |-> ""]
PyS(s)    == [t |-> "str",  b |-> FALSE, n |-> 0, s |-> s]

RECURSIVE IntStr(_)
\* str() of a non-negative int
IntStr(n) == IF n < 10 THEN Ch(Digits, n + 1) ELSE IntStr(n \div 10) \o Ch(Digits, (n % 10) + 1)

\* str(val), also the rendering of {val} in an f-string
PyStr(v) ==
    IF v.t = "none" THEN "None"
    ELSE IF v.t = "bool" THEN (IF v.b THEN "True" ELSE "False")
    ELSE IF v.t = "int" THEN IntStr(v.n)
    ELSE v.s

\* the truth value of val in "if val:"
Truthy(v) ==
    IF v.t = "none" THEN FALSE
    ELSE IF v.t = "bool" THEN v.b
    ELSE IF v.t = "int" THEN v.n # 0
    ELSE v.s # ""

(***************************************************************************)
(* Iperf3._to_bool                                                         *)
(***************************************************************************)
\* val = str(val).lower(); if val not in ['true', 'false']: raise ValueError
ToBoolRaises(val) == LowerStr(PyStr(val)) \notin {"true", "false"}

\* A variant that compares without lowering the case.
ToBool_cased(val) == PyStr(val) = "true"

\* return val == 'true'
ToBool(val) == LowerStr(PyStr(val)) = "true"

(***************************************************************************)
(* Iperf3._int_to_float                                                    *)
(***************************************************************************)
\* float(value)
ToFloat(o) == JFloat(o.n, "0")

RECURSIVE IntToFloat(_)
IntToFloat(o) ==
    IF o.t = "dict"
    THEN JDict([i \in 1..Len(o.c) |->
            LET key   == o.c[i].k
                value == o.c[i].v
            IN  IF value.t = "dict" THEN Item(key, IntToFloat(value))
                ELSE IF value.t = "list"
                     THEN Item(key, JList([j \in 1..Len(value.c) |->
                                            Item("", IntToFloat(value.c[j].v))]))
                ELSE IF IsInstInt(value) /\ ~InOpenRange(value.n)
                     THEN Item(key, ToFloat(value))
                ELSE o.c[i]])
    ELSE IF o.t = "list"
    THEN JList([j \in 1..Len(o.c) |-> Item("", IntToFloat(o.c[j].v))])
    ELSE IF IsInstInt(o) /\ ~InOpenRange(o.n) THEN ToFloat(o)
    ELSE o

(***************************************************************************)
(* re.split(r'(?<=})\n(?={)', text)                                        *)
(***************************************************************************)
\* A variant that splits at every newline.
IsSep_anyNewline(s, i) == Ch(s, i) = "\n"

\* (?<=})\n(?={) matches at i: a newline between a closing and an opening brace
IsSep(s, i) == Ch(s, i) = "\n" /\ Ch(s, i - 1) = "}" /\ Ch(s, i + 1) = "{"

\* The pieces between the matches, in order (the text itself if none matches).
ReSplit(s) ==
    LET seps == {i \in 1..Len(s) : IsSep(s, i)}
        n    == Cardinality(seps)
        \* the k-th match, with 0 before the text and Len(s) + 1 after it
        at(k) == IF k = 0 THEN 0
                 ELSE IF k = n + 1 THEN Len(s) + 1
                 ELSE CHOOSE i \in seps : Cardinality({j \in seps : j < i}) = k - 1
    IN  [k \in 1..(n + 1) |-> SubSeq(s, at(k - 1) + 1, at(k) - 1)]

(***************************************************************************)
(* Bounds and inputs                                                       *)
(***************************************************************************)
\* server processes spawned in one run
MaxSpawn == 3
\* reports one server process writes
MaxDocs == 2

\* Reports of iperf3 -s -J, one per client connection.
ServerDocs ==
    { "{\n\t\"end\":\t{\n\t\t\"bytes\":\t5000000000\n\t}\n}",
      "{\"start\":{\"connected\":[{\"socket\":5}]},\"intervals\":[]}" }

\* The beginning of a report whose writer was killed before it finished.
PartialDoc == "{\n\t\"start\":\t{"

\* What can go wrong between kill() and the decoded output.
StopCtl == {"ok", "kill", "communicate", "decode", "interrupt"}

\* Captured stdout and stderr of the client process, and its exit status.
ClientOuts ==
    { "{\"end\": {\"sum_sent\": {\"bytes\": 5000000000}}}",
      "{\"error\": \"unable to connect to server\"}",
      "{\"start\": {}}",
      "[\"error\"]",
      "" }
ClientErrs == {"", "iperf3: error"}
ReturnCodes == {0, 1}

Outcome(rc, stdout, stderr) == [rc |-> rc, stdout |-> stdout, stderr |-> stderr]
Outcomes ==
    {Outcome(0, o, "") : o \in ClientOuts}
        \cup {Outcome(1, o, e) : o \in ClientOuts, e \in ClientErrs}

\* The arguments of run_client other than protocol, reverse and bidir.
Others(addr, port, bind, dur, par, rate, bytes, tos, dscp) ==
    [server_address |-> addr, server_port |-> port, bind_address |-> bind,
     duration |-> dur, num_streams |-> par, bitrate |-> rate, num_bytes |-> bytes,
     tos |-> tos, dscp |-> dscp]

\* the defaults of the signature
OthersDefault ==
    Others(PyS("192.168.1.1"), PyNone, PyNone, PyNum(10), PyNone, PyNone, PyNone, PyNone, PyNone)
OthersAll ==
    Others(PyS("192.168.1.1"), PyNum(11211), PyS("10.0.0.2"), PyS("5"), PyNum(2), PyS("5M"),
           PyS("1K"), PyS("0x34"), PyNum(8))
OthersBare ==
    Others(PyS("::1"), PyNum(0), PyS(""), PyNone, PyNone, PyS("0"), PyNone, PyNum(52), PyNone)
OthersSet == {OthersDefault, OthersAll, OthersBare}

ClientArgs(o, protocol, reverse, bidir) ==
    [others |-> o, protocol |-> protocol, reverse |-> reverse, bidir |-> bidir]

Protocols == {PyS("tcp"), PyS("udp"), PyS("sctp"), PyS("TCP")}
Reverses  == {PyBool(TRUE), PyS("TRUE"), PyS("false"), PyS("yes"), PyS("tru"), PyNone}
Bidirs    == {PyBool(FALSE), PyS("True"), PyS("1"), PyS("")}

DefaultOutcome == Outcome(0, "{\"start\": {}}", "")

\* Calls of run_client: a few argument lists with every outcome of the process ...
FewCalls ==
    { [args |-> a, env |-> e] :
        a \in { ClientArgs(OthersDefault, PyS("tcp"), PyBool(FALSE), PyBool(FALSE)),
                ClientArgs(OthersAll, PyS("udp"), PyS("True"), PyS("TRUE")) },
        e \in Outcomes }
        \cup { [args |-> ClientArgs(OthersDefault, PyS("sctp"), PyBool(FALSE), PyBool(FALSE)),
                env |-> DefaultOutcome] }

\* ... and every argument list with one outcome.
ManyCalls ==
    { [args |-> ClientArgs(o, p, r, b), env |-> DefaultOutcome] :
        o \in OthersSet, p \in Protocols, r \in Reverses, b \in Bidirs }
        \cup FewCalls

StartArgs == { [server_port |-> p, bind_address |-> b] :
                 p \in {PyNone, PyNum(11211)}, b \in {PyNone, PyS("192.168.1.1")} }

(***************************************************************************)
(* State                                                                   *)
(***************************************************************************)
VARIABLES
    server,     \* self.server: None or the process started last
    out,        \* what the tracked server process has written to its stdout pipe
    docs,       \* the reports the tracked server process has written, in order
    nServer,    \* server processes spawned so far; the next pid is nServer + 1
    sinceStop,  \* pids of the server processes spawned since the last stop_server
    orphans,    \* server processes still running that the facade no longer tracks
    last,       \* the last keyword call: arguments, environment and outcome
    tree        \* the argument of a direct call of _int_to_float

vars == <<server, out, docs, nServer, sinceStop, orphans, last, tree>>

None == 0

NoCall ==
    [op |-> "none", args |-> <<>>, env |-> <<>>, had |-> FALSE, raised |-> "",
     msg |-> JNull, ret |-> JNull, printed |-> FALSE, cmd |-> <<>>, killed |-> None,
     out |-> "", docs |-> <<>>]

\* Iperf3.__init__
Init ==
    /\ server = None
    /\ out = ""
    /\ docs = <<>>
    /\ nServer = 0
    /\ sinceStop = <<>>
    /\ orphans = {}
    /\ last = NoCall
    /\ tree = JNull

(***************************************************************************)
(* start_server                                                            *)
(***************************************************************************)
\* shlex.split(command) of start_server.  The values rendered into the command
\* hold no whitespace and no quotes, so each is one token of the split.
ServerCommand(a) ==
    <<"iperf3", "-s", "-J">>
        \o (IF Truthy(a.server_port) THEN <<"-p", PyStr(a.server_port)>> ELSE <<>>)
        \o (IF Truthy(a.bind_address) THEN <<"-B", PyStr(a.bind_address)>> ELSE <<>>)

\* The body of start_server has no test of self.server: every call spawns a
\* process and assigns it to self.server; a process tracked before keeps running.
StartServer(a) ==
    /\ nServer < MaxSpawn
    /\ server' = nServer + 1
    /\ nServer' = nServer + 1
    /\ out' = ""
    /\ docs' = <<>>
    /\ sinceStop' = Append(sinceStop, nServer + 1)
    /\ orphans' = IF server # None THEN orphans \cup {server} ELSE orphans
    /\ last' = [NoCall EXCEPT !.op = "start_server", !.args = a, !.had = (server # None),
                              !.cmd = ServerCommand(a)]
    /\ UNCHANGED tree

RECURSIVE Written(_)
\* the pipe after the reports ds, each followed by a newline
Written(ds) == IF ds = <<>> THEN "" ELSE Written(SubSeq(ds, 1, Len(ds) - 1)) \o ds[Len(ds)] \o "\n"

\* The tracked iperf3 server finishes a test with a client and prints its
\* report, followed by a newline, into the pipe.
ServerEmit(d) ==
    /\ server # None
    /\ Len(docs) < MaxDocs
    /\ out' = Written(Append(docs, d))
    /\ docs' = Append(docs, d)
    /\ UNCHANGED <<server, nServer, sinceStop, orphans, last, tree>>

(***************************************************************************)
(* stop_server                                                             *)
(***************************************************************************)
\* [json.loads(js) for js in pieces]: the values, or a failure if one fails
LoadAll(pieces) ==
    LET r == [i \in 1..Len(pieces) |-> Loads(pieces[i])]
    IN  IF \A i \in 1..Len(pieces) : r[i].ok
        THEN [ok |-> TRUE, v |-> [i \in 1..Len(pieces) |-> Item("", r[i].v)]]
        ELSE [ok |-> FALSE, v |-> <<>>]

\* A variant of the handler that lets the failure reach the caller.
StopOutcome_reraise(text) ==
    LET stats == LoadAll(ReSplit(text))
    IN  IF stats.ok
        THEN [raised |-> "", printed |-> FALSE, ret |-> JList(stats.v)]
        ELSE [raised |-> "JSONDecodeError", printed |-> FALSE, ret |-> JNull]

\* line 113 and the handlers after it, given the decoded output
StopOutcome(text) ==
    LET stats == LoadAll(ReSplit(text))
    IN  IF stats.ok
        THEN [raised |-> "", printed |-> FALSE, ret |-> JList(stats.v)]
        ELSE [raised |-> "", printed |-> TRUE, ret |-> JList(<<>>)]

\* every text stop_server can read in the model
StopTexts ==
    { Written(ds) \o tail :
        ds \in UNION {[1..n -> ServerDocs] : n \in 0..MaxDocs}, tail \in {"", PartialDoc} }

\* StopOutcome, computed once for every text.
StopTable == [t \in StopTexts |-> StopOutcome(t)]

\* A variant without the handler of AttributeError.
NoHandle_uncaught == [raised |-> "AttributeError", ret |-> JNull]

\* self.server is None: None.kill() raises AttributeError, the handler passes,
\* and stats is still [].
NoHandle == [raised |-> "", ret |-> JList(<<>>)]

\* A variant of the finally clause that keeps the handle when a step failed.
Cleared_onSuccess(failed, handle) == IF failed THEN handle ELSE None

\* finally: self.server = None
Cleared(failed, handle) == None

StopServer(ctl, tail) ==
    LET text == out \o tail
        res  == StopTable[text]
        e    == [ctl |-> ctl, tail |-> tail]
        call == [NoCall EXCEPT !.op = "stop_server", !.env = e, !.had = (server # None),
                               !.out = text, !.docs = docs]
    IN  /\ IF server = None
           THEN /\ ctl = "ok" /\ tail = ""
                /\ last' = [call EXCEPT !.raised = NoHandle.raised, !.ret = NoHandle.ret,
                                        !.out = ""]
                /\ orphans' = orphans
           ELSE IF ctl = "kill"
           THEN \* kill() raises: reported, the process is not signalled
                /\ tail = ""
                /\ last' = [call EXCEPT !.ret = JList(<<>>), !.printed = TRUE, !.out = ""]
                /\ orphans' = orphans \cup {server}
           ELSE IF ctl \in {"communicate", "decode"}
           THEN \* communicate() or decode() raises an Exception: reported
                /\ tail = ""
                /\ last' = [call EXCEPT !.ret = JList(<<>>), !.printed = TRUE,
                                        !.killed = server, !.out = ""]
                /\ orphans' = orphans
           ELSE IF ctl = "interrupt"
           THEN \* KeyboardInterrupt in communicate(): not an Exception, not caught
                /\ tail = ""
                /\ last' = [call EXCEPT !.raised = "KeyboardInterrupt", !.killed = server,
                                        !.out = ""]
                /\ orphans' = orphans
           ELSE /\ last' = [call EXCEPT !.raised = res.raised, !.printed = res.printed,
                                        !.ret = res.ret, !.killed = server]
                /\ orphans' = orphans
        /\ server' = Cleared(server # None /\ (ctl # "ok" \/ res.printed), server)
        /\ out' = IF server' = None THEN "" ELSE out
        /\ docs' = IF server' = None THEN <<>> ELSE docs
        /\ sinceStop' = <<>>
        /\ UNCHANGED <<nServer, tree>>

(***************************************************************************)
(* run_client                                                              *)
(***************************************************************************)
\* if protocol not in ['tcp', 'udp']
BadProtocol(protocol) == ~(protocol.t = "str" /\ protocol.s \in {"tcp", "udp"})

\* if v is not None: command += f' flag {v}'
Opt(flag, v) == IF v.t # "none" THEN <<flag, PyStr(v)>> ELSE <<>>

\* if self._to_bool(v): command += f' flag'
Flag(flag, v) == IF ToBool(v) THEN <<flag>> ELSE <<>>

\* shlex.split(command) of run_client (lines 298-336), token by token as for
\* start_server.
ClientCommand(a) ==
    LET o == a.others
    IN  <<"iperf3", "-J", "-c", PyStr(o.server_address)>>
            \o (IF Truthy(o.server_port) THEN <<"-p", PyStr(o.server_port)>> ELSE <<>>)
            \o (IF Truthy(o.bind_address) THEN <<"-B", PyStr(o.bind_address)>> ELSE <<>>)
            \o (IF a.protocol = PyS("udp") THEN <<"-u">> ELSE <<>>)
            \o Opt("--time", o.duration)
            \o Opt("--parallel", o.num_streams)
            \o Flag("--reverse", a.reverse)
            \o Opt("-b", o.bitrate)
            \o Opt("--bytes", o.num_bytes)
            \o Flag("--bidir", a.bidir)
            \o Opt("--tos", o.tos)
            \o Opt("--dscp", o.dscp)

\* A variant that raises the parse error of the output instead of the reason.
FailReason_strict(e) ==
    LET js == Loads(e.stdout)
    IN  IF js.ok /\ js.v.t = "dict" /\ HasKey(js.v, "error") THEN Get(js.v, "error")
        ELSE IF js.ok THEN JStr(e.stderr)
        ELSE JStr("JSONDecodeError")

\* reason = stderr.decode(); try: reason = json.loads(stdout)["error"]
\* finally: raise Exception(reason)
FailReason(e) ==
    LET js == Loads(e.stdout)
    IN  IF js.ok /\ js.v.t = "dict" /\ HasKey(js.v, "error") THEN Get(js.v, "error")
        ELSE JStr(e.stderr)

\* A variant that spawns the process before it validates the flags.
ArgError_protocolOnly(a) ==
    IF BadProtocol(a.protocol) THEN "unsupported protocol: " \o PyStr(a.protocol) ELSE ""

\* The message of the ValueError the arguments raise before Popen, or "".
ArgError(a) ==
    IF BadProtocol(a.protocol) THEN "unsupported protocol: " \o PyStr(a.protocol)
    ELSE IF ToBoolRaises(a.reverse) \/ ToBoolRaises(a.bidir) THEN "value not bool-like"
    ELSE ""

\* The call c of run_client from the arguments to the return or the raise.
RunOutcome(c) ==
    LET a    == c.args
        e    == c.env
        js   == Loads(e.stdout)
        call == [NoCall EXCEPT !.op = "run_client", !.args = a]
        run  == [call EXCEPT !.env = e, !.cmd = ClientCommand(a), !.out = e.stdout]
    IN  IF ArgError(a) # ""
        THEN [call EXCEPT !.raised = "ValueError", !.msg = JStr(ArgError(a))]
        ELSE IF e.rc # 0
        THEN [run EXCEPT !.raised = "Exception", !.msg = FailReason(e)]
        ELSE IF ~js.ok
        THEN [run EXCEPT !.raised = "JSONDecodeError"]
        ELSE [run EXCEPT !.ret = IntToFloat(js.v)]

\* RunOutcome, computed once for every call of the model.
RunTable == [c \in ManyCalls |-> RunOutcome(c)]

RunClient(c) ==
    /\ last' = [RunTable[c] EXCEPT !.had = (server # None)]
    /\ UNCHANGED <<server, out, docs, nServer, sinceStop, orphans, tree>>

(***************************************************************************)
(* Specifications                                                          *)
(***************************************************************************)
Next ==
    \/ \E a \in StartArgs : StartServer(a)
    \/ \E d \in ServerDocs : ServerEmit(d)
    \/ \E ctl \in StopCtl, tail \in {"", PartialDoc} : StopServer(ctl, tail)
    \/ \E c \in FewCalls : RunClient(c)

\* The facade with its server and its clients.
Spec == Init /\ [][Next]_vars

NextClient ==
    \/ \E a \in {[server_port |-> PyNone, bind_address |-> PyNone]} : StartServer(a)
    \/ \E ctl \in {"ok"} : StopServer(ctl, "")
    \/ \E c \in ManyCalls : RunClient(c)

\* The facade called with every argument list of run_client.
SpecClient == Init /\ [][NextClient]_vars

(***************************************************************************)
(* _int_to_float called on trees of bounded size                           *)
(***************************************************************************)
\* items of a list or a dict
MaxLen == 2

\* -2^31 - 1, -2^31, -2^31 + 1, 0, 2^31 - 1, 2^31, 5000000000
IntSamples ==
    { Neg(Mag(TwoTo31Hi, 1)), Neg(Mag(TwoTo31Hi, 0)), Neg(Mag(TwoTo31Hi - 1, Limb - 1)), Zero,
      Mag(TwoTo31Hi - 1, Limb - 1), Mag(TwoTo31Hi, 0), Mag(76293, 61952) }

Leaves ==
    {JInt(m) : m \in IntSamples}
        \cup {JFloat(Mag(0, 1), "5"), JStr("x"), JBool(TRUE), JNull}

Keys == <<"a", "b", "c", "d">>

ListsOf(S) == UNION { {JList([i \in 1..n |-> Item("", f[i])]) : f \in [1..n -> S]} : n \in 0..MaxLen }
DictsOf(S) == UNION { {JDict([i \in 1..n |-> Item(Keys[i], f[i])]) : f \in [1..n -> S]} : n \in 0..MaxLen }

Flat == ListsOf(Leaves) \cup DictsOf(Leaves)

Trees ==
    Leaves \cup Flat
        \cup {JList(<<Item("", x)>>) : x \in Flat}
        \cup {JDict(<<Item("a", x)>>) : x \in Flat}
        \cup {JDict(<<Item("a", JList(<<Item("", x), Item("", y)>>))>>) :
                 x \in DictsOf({JInt(m) : m \in IntSamples}), y \in {JNull}}

InitNorm ==
    /\ server = None
    /\ out = ""
    /\ docs = <<>>
    /\ nServer = 0
    /\ sinceStop = <<>>
    /\ orphans = {}
    /\ last = NoCall
    /\ tree \in Trees

Normalize ==
    /\ last.op = "none"
    /\ last' = [NoCall EXCEPT !.op = "_int_to_float", !.ret = IntToFloat(tree)]
    /\ UNCHANGED <<server, out, docs, nServer, sinceStop, orphans, tree>>

NextNorm == Normalize

\* _int_to_float on its own.
SpecNorm == InitNorm /\ [][NextNorm]_vars

(***************************************************************************)
(* Properties                                                              *)
(***************************************************************************)
EmptyList == JList(<<>>)

\* C1: while a handle exists, start_server spawns nothing and keeps the handle:
\* at most one server process is spawned between two stops, and the facade
\* tracks the first of them.
C1_StartWhileRunning ==
    sinceStop # <<>> => (Len(sinceStop) = 1 /\ server = sinceStop[1])

\* C2: a stop_server called with a handle leaves no handle, whichever of its
\* steps failed, and the start_server after a stop_server spawns a process
\* never seen before and tracks it.
C2_StopClears ==
    [][ /\ (last'.op = "stop_server" /\ server # None) => server' = None
        /\ (last.op = "stop_server" /\ last'.op = "start_server")
              => (server' # None /\ server' > nServer /\ server' \notin orphans
                    /\ server' # last.killed /\ sinceStop' = <<server'>>) ]_vars

C2_Witness ==
    /\ last.op = "stop_server" /\ last.had /\ last.env.ctl = "ok"
    /\ last.printed /\ last.docs # <<>>
    /\ server = None

\* C3: stop_server without a handle returns an empty list, raises nothing,
\* signals no process and leaves the handle absent; so does the second of two
\* stop_server calls in a row.
C3_StopWithoutHandle ==
    [][ /\ (last'.op = "stop_server" /\ server = None)
              => (last'.ret = EmptyList /\ last'.raised = "" /\ last'.killed = None
                    /\ server' = None /\ orphans' = orphans)
        /\ (last.op = "stop_server" /\ last'.op = "stop_server")
              => (last'.ret = EmptyList /\ last'.raised = "" /\ last'.killed = None) ]_vars

C3_Witness ==
    last.op = "stop_server" /\ ~last.had /\ nServer > 0 /\ last.ret = EmptyList

RECURSIVE NoWideInt(_)
\* no int of the tree lies outside the signed 32-bit range
NoWideInt(o) ==
    /\ o.t = "int" => InInt32(o.n)
    /\ \A i \in 1..Len(o.c) : NoWideInt(o.c[i].v)

\* C4: every result run_client returns and every list of statistics
\* stop_server returns holds no integer outside the signed 32-bit range.
C4_EveryResultNormalized ==
    (last.op \in {"run_client", "stop_server"} /\ last.raised = "") => NoWideInt(last.ret)

\* the spellings of a word in upper and lower case
Cases(l, u) == {l, u}
TrueWords ==
    {a \o b \o c \o d : a \in Cases("t", "T"), b \in Cases("r", "R"), c \in Cases("u", "U"),
                        d \in Cases("e", "E")}
FalseWords ==
    {a \o b \o c \o d \o e : a \in Cases("f", "F"), b \in Cases("a", "A"),
                              c \in Cases("l", "L"), d \in Cases("s", "S"),
                              e \in Cases("e", "E")}
TrueLike(v)  == v = PyBool(TRUE) \/ (v.t = "str" /\ v.s \in TrueWords)
FalseLike(v) == v = PyBool(FALSE) \/ (v.t = "str" /\ v.s \in FalseWords)
BoolLike(v)  == TrueLike(v) \/ FalseLike(v)
GoodProtocol(v) == v = PyS("tcp") \/ v = PyS("udp")

\* C5: run_client with a protocol other than "tcp" and "udp", or with a
\* reverse or bidir that is not bool-like, raises ValueError, spawns no process
\* and leaves the handle as it was.
C5_InvalidArgument ==
    [][ (/\ last'.op = "run_client"
         /\ \/ ~GoodProtocol(last'.args.protocol)
            \/ ~BoolLike(last'.args.reverse)
            \/ ~BoolLike(last'.args.bidir))
          => (last'.raised = "ValueError" /\ last'.cmd = <<>> /\ server' = server
                /\ nServer' = nServer /\ orphans' = orphans) ]_vars

C5_Witness ==
    /\ last.op = "run_client" /\ last.had /\ last.raised = "ValueError"
    /\ GoodProtocol(last.args.protocol) /\ BoolLike(last.args.reverse)
    /\ ~BoolLike(last.args.bidir)
    /\ last.args.others = OthersAll

\* the "error" member of the outputs of ClientOuts that are a mapping with one
ErrorOf(stdout) ==
    IF stdout = "{\"error\": \"unable to connect to server\"}"
    THEN <<JStr("unable to connect to server")>>
    ELSE <<>>

\* C6: after a non-zero exit status run_client raises, with the "error" member
\* of the output if the output is a JSON mapping that has one and with the
\* text of stderr otherwise; an exit status of zero raises no such error.
C6_ClientFailure ==
    (last.op = "run_client" /\ last.cmd # <<>>)
      => /\ last.env.rc # 0 =>
              /\ last.raised = "Exception"
              /\ last.ret = JNull
              /\ last.msg = IF ErrorOf(last.env.stdout) # <<>>
                            THEN ErrorOf(last.env.stdout)[1]
                            ELSE JStr(last.env.stderr)
         /\ last.env.rc = 0 => last.raised # "Exception"

C6_Witness ==
    /\ last.op = "run_client" /\ last.env.rc # 0
    /\ last.env.stdout = "[\"error\"]" /\ last.env.stderr # ""
    /\ last.msg = JStr(last.env.stderr)

\* the output stop_server read holds a document that is not JSON: nothing was
\* written, or the last report was cut
BrokenOutput == last.docs = <<>> \/ last.env.tail # ""

\* C7 as stated: a document that fails to parse makes stop_server raise, and
\* the handle is cleared.
C7_ParseFailureRaises ==
    (last.op = "stop_server" /\ last.had /\ last.env.ctl = "ok" /\ BrokenOutput)
      => (last.raised # "" /\ server = None)

\* C7 amended: a document that fails to parse is reported by a printed line;
\* stop_server returns an empty list, raises nothing, and the handle is
\* cleared.
C7_ParseFailureContained ==
    (last.op = "stop_server" /\ last.had /\ last.env.ctl = "ok" /\ BrokenOutput)
      => (last.raised = "" /\ last.printed /\ last.ret = EmptyList /\ server = None)

C7_Witness ==
    /\ last.op = "stop_server" /\ last.had /\ last.env.ctl = "ok"
    /\ last.env.tail # "" /\ Len(last.docs) = 1
    /\ last.printed

RECURSIVE Normal(_)
Normal(o) ==
    IF o.t = "int" /\ ~InInt32(o.n) THEN JFloat(o.n, "0")
    ELSE [o EXCEPT !.c = [i \in 1..Len(o.c) |-> Item(o.c[i].k, Normal(o.c[i].v))]]

\* C9: _int_to_float turns an int into a float exactly when it is below -2^31
\* or at least 2^31, at every level, and changes nothing else.
C9_NormalizationRange ==
    last.op = "_int_to_float" => last.ret = Normal(tree)

\* C10: _to_bool takes "true" in any case and True to true, "false" in any
\* case and False to false, and raises ValueError for every other value;
\* --reverse and --bidir are on the command line exactly when the argument is
\* true.
C10_BoolCoercion ==
    (last.op = "run_client" /\ GoodProtocol(last.args.protocol))
      => IF BoolLike(last.args.reverse) /\ BoolLike(last.args.bidir)
         THEN /\ last.raised # "ValueError"
              /\ ("--reverse" \in Range(last.cmd)) <=> TrueLike(last.args.reverse)
              /\ ("--bidir" \in Range(last.cmd)) <=> TrueLike(last.args.bidir)
         ELSE last.raised = "ValueError" /\ last.msg = JStr("value not bool-like")

C10_Witness ==
    /\ last.op = "run_client" /\ last.raised = ""
    /\ last.args.reverse = PyS("TRUE") /\ last.args.bidir = PyBool(FALSE)
    /\ "--reverse" \in Range(last.cmd) /\ "--bidir" \notin Range(last.cmd)

====
